---- MODULE Spec2Model ----
(***************************************************************************)
(* Model of gif.py: the frame decorator (frame / wrapper1 / wrapper2) and  *)
(* save.  The program state is the module flag altair_saver_installed, the *)
(* decorated plotting function, pyplot's stack of open figures, the        *)
(* BytesIO buffers allocated by captures, the caller's list of frames, the *)
(* files written by save, and the outcome of the last call.                *)
(***************************************************************************)
EXTENDS Integers, Sequences, FiniteSets, TLC

VARIABLES altair_saver_installed, plot, figs, buffers, frames, files, last

vars == <<altair_saver_installed, plot, figs, buffers, frames, files, last>>

(* ------------------------------ bounds --------------------------------- *)
MaxCaptures == 2
MaxFigs == 2

(* --------------------------- input domains ----------------------------- *)
\* the frame index the caller passes to the plotting function
Marks == {"0", "1"}
\* the calls plot(i) and plot(i, color="r") the caller makes
CallerCalls ==
  { [args |-> <<"0">>, kwargs |-> {}],
    [args |-> <<"1">>, kwargs |-> {<<"color", "r">>}] }
Paths == {"out.gif"}
Durations == {50}
DefaultDuration == 100

\* *save_args / **save_kwargs given to frame(); keyword arguments are sets
\* of <<name, value>> pairs
Plain == [args |-> <<>>, kwargs |-> {}]
WithOptions == [args |-> <<"tight">>, kwargs |-> {<<"dpi", "300">>}]
WithFormat == [args |-> <<>>, kwargs |-> {<<"format", "jpg">>}]
WithFmt == [args |-> <<>>, kwargs |-> {<<"fmt", "svg">>}]

\* the decorations gif.frame(*opts.args, **opts.kwargs)(func) the caller makes
Decorations ==
  { [opts |-> Plain, func |-> "scatter"],
    [opts |-> WithOptions, func |-> "scatter"],
    [opts |-> WithFormat, func |-> "scatter"],
    [opts |-> Plain, func |-> "scatter_ret"],
    [opts |-> Plain, func |-> "two_figures"],
    [opts |-> Plain, func |-> "chart"],
    [opts |-> WithOptions, func |-> "chart"],
    [opts |-> WithFormat, func |-> "chart"],
    [opts |-> WithFmt, func |-> "chart"],
    [opts |-> Plain, func |-> "draw_chart"],
    [opts |-> Plain, func |-> "my_chart"],
    [opts |-> Plain, func |-> "channel"] }

NoError == [type |-> "none", msg |-> ""]

\* what the libraries do during one call: which step raises, and what
\* (partial: a failing encoder had already started writing the file)
Envs ==
  { [step |-> "none", error |-> NoError, partial |-> FALSE],
    [step |-> "func", error |-> [type |-> "KeyError", msg |-> "user"], partial |-> FALSE],
    [step |-> "render", error |-> [type |-> "ValueError", msg |-> "render"], partial |-> FALSE],
    [step |-> "decode", error |-> [type |-> "UnidentifiedImageError", msg |-> "decode"], partial |-> FALSE],
    [step |-> "encode", error |-> [type |-> "OSError", msg |-> "encode"], partial |-> FALSE],
    [step |-> "encode", error |-> [type |-> "OSError", msg |-> "encode"], partial |-> TRUE] }

CaptureEnvs == {e \in Envs : e.step # "encode"}
SaveEnvs == {e \in Envs : e.step \in {"none", "encode"}}

(* ----------------------- str(type(plot)) dispatch ---------------------- *)
ALTAIR == <<"a","l","t","a","i","r">>

\* values a plotting function returns
RetKinds == {"None", "Chart", "PathCollection", "MyChart", "ChannelX"}

\* the value really is a chart of the declarative-chart library
\* (MyChart is a subclass of altair's Chart defined in the user's script)
IsChartObject(ret) == ret \in {"Chart", "MyChart"}

\* str(type(plot))
TypeStr(ret) ==
  CASE ret = "None" ->
         <<"<","c","l","a","s","s"," ","'","N","o","n","e","T","y","p","e","'",">">>
    [] ret = "Chart" ->
         <<"<","c","l","a","s","s"," ","'","a","l","t","a","i","r",".","v","e","g","a","l","i","t","e",".","v","4",".","a","p","i",".","C","h","a","r","t","'",">">>
    [] ret = "PathCollection" ->
         <<"<","c","l","a","s","s"," ","'","m","a","t","p","l","o","t","l","i","b",".","c","o","l","l","e","c","t","i","o","n","s",".","P","a","t","h","C","o","l","l","e","c","t","i","o","n","'",">">>
    [] ret = "MyChart" ->
         <<"<","c","l","a","s","s"," ","'","_","_","m","a","i","n","_","_",".","M","y","C","h","a","r","t","'",">">>
    [] ret = "ChannelX" ->
         <<"<","c","l","a","s","s"," ","'","a","l","t","a","i","r",".","v","e","g","a","l","i","t","e",".","v","4",".","s","c","h","e","m","a",".","c","h","a","n","n","e","l","s",".","X","'",">">>

\* Python's `sub in s` on strings
Contains(s, sub) ==
  \E i \in 0..(Len(s) - Len(sub)) : SubSeq(s, i + 1, i + Len(sub)) = sub

\* the test written with == in place of `in`
IsAltair_exact(ret) == TypeStr(ret) = ALTAIR

\* "altair" in str(type(plot))
IsAltair(ret) == Contains(TypeStr(ret), ALTAIR)

(* ------------------------- pyplot figure stack ------------------------- *)
\* figs is the stack of open figures, the last one is the current figure;
\* a figure is the set of marks drawn on it
gcf(fs) == IF fs = <<>> THEN <<{}>> ELSE fs

Draw(fs, m) == LET g == gcf(fs) IN [g EXCEPT ![Len(g)] = @ \cup {m}]

NewFigure(fs) == Append(fs, {})

\* plt.close(): closes the current figure only
close(fs) == IF fs = <<>> THEN fs ELSE SubSeq(fs, 1, Len(fs) - 1)

(* ------------------------- plotting functions -------------------------- *)
PlotFuncs == {"scatter", "scatter_ret", "two_figures", "chart", "draw_chart",
              "my_chart", "channel"}

\* the body of a plotting function: its pyplot calls and its return value
FuncBody(f) ==
  CASE f = "scatter"     -> [ops |-> <<"draw">>, ret |-> "None"]
    [] f = "scatter_ret" -> [ops |-> <<"draw">>, ret |-> "PathCollection"]
    [] f = "two_figures" -> [ops |-> <<"figure", "draw", "figure", "draw">>, ret |-> "None"]
    [] f = "chart"       -> [ops |-> <<>>, ret |-> "Chart"]
    [] f = "draw_chart"  -> [ops |-> <<"draw">>, ret |-> "Chart"]
    [] f = "my_chart"    -> [ops |-> <<>>, ret |-> "MyChart"]
    [] f = "channel"     -> [ops |-> <<>>, ret |-> "ChannelX"]

RECURSIVE RunOps(_, _, _)
RunOps(fs, ops, m) ==
  IF ops = <<>> THEN fs
  ELSE RunOps(IF Head(ops) = "draw" THEN Draw(fs, m) ELSE NewFigure(fs),
              Tail(ops), m)

(* ------------------------------ buffers -------------------------------- *)
\* a BytesIO object: its content and its stream position (0 = start)
EmptyData == [format |-> "none", pixels |-> {}]
EmptyBuffer == [data |-> EmptyData, pos |-> 0]

\* one buffer kept at module level and used by every capture
BytesIO_shared(bufs) == 1

\* io.BytesIO(): the identity of the buffer object a capture allocates
BytesIO(bufs) == Len(bufs) + 1

Store(bufs, b, buf) ==
  IF b > Len(bufs) THEN Append(bufs, buf) ELSE [bufs EXCEPT ![b] = buf]

\* the renderer writes PNG data into the buffer; the position ends up
\* behind the data
WritePng(bufs, b, pixels) ==
  [bufs EXCEPT ![b] = [data |-> [format |-> "png", pixels |-> pixels], pos |-> 1]]

\* buffer.seek(0)
seek0(bufs, b) == [bufs EXCEPT ![b].pos = 0]

\* the pixels an image decodes to (PIL reads them from the image's buffer)
Pixels(bufs, img) == bufs[img.fp].data.pixels

\* the image an Image object decodes to: two images are the same image
\* when they show the same marks
Decode(bufs, img) == bufs[img.fp].data

(* --------------------------- calls made -------------------------------- *)
\* one call into the user's function or a library, and what it raised
Call(fn, fp, args, kwargs, raised) ==
  [fn |-> fn, fp |-> fp, args |-> args, kwargs |-> kwargs, raised |-> raised]

Raises(env, step) == IF env.step = step THEN env.error ELSE NoError

KwNames(kw) == {kv[1] : kv \in kw}

\* Python rejects f(name=v, **kw) when kw has the key name as well
DuplicateKeyword ==
  [type |-> "TypeError", msg |-> "got multiple values for keyword argument"]

MissingExtension == [type |-> "MissingExtension", msg |-> "pip install gif[altair]"]

(* ----------------------------- wrapper2 -------------------------------- *)
RenderKwargs_onlyFormat(name, sk) == {<<name, "png">>}

\* lines 56, 58: f(..., name="png", **save_kwargs)
RenderKwargs(name, sk) == sk \cup {<<name, "png">>}

\* the branch without the check of the flag
ChartMode_noCheck(p, ret, mark, b, fs, bufs, env, installed) ==
  IF "fmt" \in KwNames(p.save_kwargs)
  THEN [figs |-> fs, buffers |-> bufs, error |-> DuplicateKeyword, trace |-> <<>>]
  ELSE LET c == Call("save_alt", b, p.save_args,
                     RenderKwargs("fmt", p.save_kwargs), Raises(env, "render"))
       IN IF env.step = "render"
          THEN [figs |-> fs, buffers |-> bufs, error |-> env.error, trace |-> <<c>>]
          ELSE [figs |-> fs,
                buffers |-> WritePng(bufs, b, IF IsChartObject(ret) THEN {mark} ELSE {}),
                error |-> NoError, trace |-> <<c>>]

\* the branch closing the current figure as the imperative branch does
ChartMode_close(p, ret, mark, b, fs, bufs, env, installed) ==
  IF ~installed
  THEN [figs |-> fs, buffers |-> bufs, error |-> MissingExtension, trace |-> <<>>]
  ELSE IF "fmt" \in KwNames(p.save_kwargs)
  THEN [figs |-> fs, buffers |-> bufs, error |-> DuplicateKeyword, trace |-> <<>>]
  ELSE LET c == Call("save_alt", b, p.save_args,
                     RenderKwargs("fmt", p.save_kwargs), Raises(env, "render"))
       IN IF env.step = "render"
          THEN [figs |-> fs, buffers |-> bufs, error |-> env.error, trace |-> <<c>>]
          ELSE [figs |-> close(fs),
                buffers |-> WritePng(bufs, b, IF IsChartObject(ret) THEN {mark} ELSE {}),
                error |-> NoError, trace |-> <<c>>]

\* lines 54-56: the chart-mode branch
ChartMode(p, ret, mark, b, fs, bufs, env, installed) ==
  IF ~installed
  THEN [figs |-> fs, buffers |-> bufs, error |-> MissingExtension, trace |-> <<>>]
  ELSE IF "fmt" \in KwNames(p.save_kwargs)
  THEN [figs |-> fs, buffers |-> bufs, error |-> DuplicateKeyword, trace |-> <<>>]
  ELSE LET c == Call("save_alt", b, p.save_args,
                     RenderKwargs("fmt", p.save_kwargs), Raises(env, "render"))
       IN IF env.step = "render"
          THEN [figs |-> fs, buffers |-> bufs, error |-> env.error, trace |-> <<c>>]
          ELSE [figs |-> fs,
                buffers |-> WritePng(bufs, b, IF IsChartObject(ret) THEN {mark} ELSE {}),
                error |-> NoError, trace |-> <<c>>]

\* the branch catching a failure of savefig and trying once more
ImperativeMode_retry(p, b, fs, bufs, env) ==
  IF "format" \in KwNames(p.save_kwargs)
  THEN [figs |-> fs, buffers |-> bufs, error |-> DuplicateKeyword, trace |-> <<>>]
  ELSE LET g == gcf(fs)
           c == Call("savefig", b, p.save_args,
                     RenderKwargs("format", p.save_kwargs), Raises(env, "render"))
       IN IF env.step = "render"
          THEN [figs |-> close(g), buffers |-> bufs,
                error |-> [type |-> "RuntimeError", msg |-> "could not render"],
                trace |-> <<c, c, Call("close", 0, <<>>, {}, NoError)>>]
          ELSE [figs |-> close(g),
                buffers |-> WritePng(bufs, b, g[Len(g)]),
                error |-> NoError,
                trace |-> <<c, Call("close", 0, <<>>, {}, NoError)>>]

\* lines 58-59: the imperative-mode branch
ImperativeMode(p, b, fs, bufs, env) ==
  IF "format" \in KwNames(p.save_kwargs)
  THEN [figs |-> fs, buffers |-> bufs, error |-> DuplicateKeyword, trace |-> <<>>]
  ELSE LET g == gcf(fs)
           c == Call("savefig", b, p.save_args,
                     RenderKwargs("format", p.save_kwargs), Raises(env, "render"))
       IN IF env.step = "render"
          THEN [figs |-> g, buffers |-> bufs, error |-> env.error, trace |-> <<c>>]
          ELSE [figs |-> close(g),
                buffers |-> WritePng(bufs, b, g[Len(g)]),
                error |-> NoError,
                trace |-> <<c, Call("close", 0, <<>>, {}, NoError)>>]

\* line 53
Mode(ret) == IF IsAltair(ret) THEN "chart" ELSE "imperative"

\* lines 60-62: Image.open rewinds the buffer itself and identifies the
\* image from its first bytes
ImageOpen(bufs, b, env) ==
  IF env.step = "decode" THEN env.error
  ELSE IF bufs[b].data.format # "png"
  THEN [type |-> "UnidentifiedImageError", msg |-> "cannot identify image file"]
  ELSE NoError

\* lines 50-62: one call of the decorated function; buffers holds every
\* buffer allocated so far, the last one is the buffer of this call
wrapper2(p, args, kwargs, env, installed, fs, bufs) ==
  LET b     == BytesIO(bufs)
      bufs1 == Store(bufs, b, EmptyBuffer)
      body  == FuncBody(p.func)
      fs1   == RunOps(fs, body.ops, args[1])
      cf    == Call("func", 0, args, kwargs, Raises(env, "func"))
  IN IF env.step = "func"
     THEN [figs |-> fs1, buffers |-> bufs1, mode |-> "none", error |-> env.error,
           returned |-> 0, trace |-> <<cf>>]
     ELSE LET m == Mode(body.ret)
              r == IF m = "chart"
                   THEN ChartMode(p, body.ret, args[1], b, fs1, bufs1, env, installed)
                   ELSE ImperativeMode(p, b, fs1, bufs1, env)
          IN IF r.error # NoError
             THEN [figs |-> r.figs, buffers |-> r.buffers, mode |-> m,
                   error |-> r.error, returned |-> 0, trace |-> <<cf>> \o r.trace]
             ELSE LET bufs2 == seek0(r.buffers, b)
                      oe    == ImageOpen(bufs2, b, env)
                      co    == Call("Image.open", b, <<>>, {}, oe)
                  IN [figs |-> r.figs, buffers |-> bufs2, mode |-> m, error |-> oe,
                      returned |-> IF oe = NoError THEN b ELSE 0,
                      trace |-> <<cf>> \o r.trace \o <<co>>]

(* ------------------------------- save ---------------------------------- *)
NoFile == [exists |-> FALSE, frames |-> <<>>, durations |-> <<>>, loop |-> -1]

\* what is left of a file whose writing failed half way
Truncated == [exists |-> TRUE, frames |-> <<>>, durations |-> <<>>, loop |-> -1]

IndexError == [type |-> "IndexError", msg |-> "list index out of range"]

\* frames in place of frames[1:]
Slice1_all(frs) == frs

\* frames[1:]
Slice1(frs) == SubSeq(frs, 2, Len(frs))

\* PIL's GIF writer goes through the frames in order and compares each
\* with the frame written before it: a frame identical to that one is not
\* written, its duration is added to the duration of the one before
RECURSIVE MergeFrames(_, _, _, _)
MergeFrames(imgs, duration, fs, ds) ==
  IF imgs = <<>> THEN [frames |-> fs, durations |-> ds]
  ELSE IF fs # <<>> /\ Head(imgs) = fs[Len(fs)]
  THEN MergeFrames(Tail(imgs), duration, fs,
                   [ds EXCEPT ![Len(ds)] = @ + duration])
  ELSE MergeFrames(Tail(imgs), duration, Append(fs, Head(imgs)),
                   Append(ds, duration))

\* PIL's GIF writer: the image the method is called on is the first frame,
\* with save_all the images of append_images follow, and a single duration
\* is the display time of every frame given
GifWrite(base, request, bufs) ==
  LET imgs == IF request.save_all THEN <<base>> \o request.append_images
              ELSE <<base>>
      m == MergeFrames([i \in 1..Len(imgs) |-> Decode(bufs, imgs[i])],
                       request.duration, <<>>, <<>>)
  IN [exists |-> TRUE, frames |-> m.frames, durations |-> m.durations,
      loop |-> request.loop]

\* save validating its input and writing an empty animation for no frames
save_emptyFile(frs, path, duration, env, fls, bufs) ==
  IF frs = <<>>
  THEN [files |-> [fls EXCEPT ![path] = Truncated],
        error |-> [type |-> "ValueError", msg |-> "no frames"], trace |-> <<>>]
  ELSE LET request == [save_all |-> TRUE, append_images |-> Slice1(frs),
                       optimize |-> TRUE, duration |-> duration, loop |-> 0]
           c == Call("Image.save", frs[1].fp, <<path>>, request, Raises(env, "encode"))
       IN IF env.step = "encode"
          THEN [files |-> IF env.partial THEN [fls EXCEPT ![path] = Truncated] ELSE fls,
                error |-> env.error, trace |-> <<c>>]
          ELSE [files |-> [fls EXCEPT ![path] = GifWrite(frs[1], request, bufs)],
                error |-> NoError, trace |-> <<c>>]

\* lines 84-91
save(frs, path, duration, env, fls, bufs) ==
  IF frs = <<>>
  THEN [files |-> fls, error |-> IndexError, trace |-> <<>>]
  ELSE LET request == [save_all |-> TRUE, append_images |-> Slice1(frs),
                       optimize |-> TRUE, duration |-> duration, loop |-> 0]
           c == Call("Image.save", frs[1].fp, <<path>>, request, Raises(env, "encode"))
       IN IF env.step = "encode"
          THEN [files |-> IF env.partial THEN [fls EXCEPT ![path] = Truncated] ELSE fls,
                error |-> env.error, trace |-> <<c>>]
          ELSE [files |-> [fls EXCEPT ![path] = GifWrite(frs[1], request, bufs)],
                error |-> NoError, trace |-> <<c>>]

(* ------------------------------ actions -------------------------------- *)
NoPlot == [save_args |-> <<>>, save_kwargs |-> {}, func |-> "none"]

\* last: the call made last, the arguments the caller gave, its outcome and
\* the calls it made
Idle == [op |-> "none", input |-> <<>>, mode |-> "none", error |-> NoError,
         returned |-> 0, trace |-> <<>>]

\* lines 7-12: the flag is set by the import attempt when the module loads
Init ==
  /\ altair_saver_installed \in BOOLEAN
  /\ plot = NoPlot
  /\ figs = <<>>
  /\ buffers = <<>>
  /\ frames = <<>>
  /\ files = [p \in Paths |-> NoFile]
  /\ last = Idle

\* lines 19, 49, 64-65: plot = gif.frame(*save_args, **save_kwargs)(func)
Decorate(opts, f) ==
  /\ plot' = [save_args |-> opts.args, save_kwargs |-> opts.kwargs, func |-> f]
  /\ last' = [Idle EXCEPT !.op = "decorate"]
  /\ UNCHANGED <<altair_saver_installed, figs, buffers, frames, files>>

\* a capture that tries the import again when it meets a chart
Capture_reimport(args, kwargs, env) ==
  /\ plot # NoPlot
  /\ Len(buffers) < MaxCaptures
  /\ Len(gcf(RunOps(figs, FuncBody(plot.func).ops, args[1]))) <= MaxFigs
  /\ LET r == wrapper2(plot, args, kwargs, env, altair_saver_installed, figs, buffers)
     IN /\ figs' = r.figs
        /\ buffers' = r.buffers
        /\ frames' = IF r.returned # 0 THEN Append(frames, [fp |-> r.returned])
                     ELSE frames
        /\ last' = [op |-> "capture", input |-> [args |-> args, kwargs |-> kwargs],
                    mode |-> r.mode, error |-> r.error,
                    returned |-> r.returned, trace |-> r.trace]
        /\ altair_saver_installed' = (altair_saver_installed \/ r.mode = "chart")
  /\ UNCHANGED <<plot, files>>

\* lines 50-62 called as in lines 80-81: frame = plot(i); frames.append(frame)
Capture(args, kwargs, env) ==
  /\ plot # NoPlot
  /\ Len(buffers) < MaxCaptures
  /\ Len(gcf(RunOps(figs, FuncBody(plot.func).ops, args[1]))) <= MaxFigs
  /\ LET r == wrapper2(plot, args, kwargs, env, altair_saver_installed, figs, buffers)
     IN /\ figs' = r.figs
        /\ buffers' = r.buffers
        /\ frames' = IF r.returned # 0 THEN Append(frames, [fp |-> r.returned])
                     ELSE frames
        /\ last' = [op |-> "capture", input |-> [args |-> args, kwargs |-> kwargs],
                    mode |-> r.mode, error |-> r.error,
                    returned |-> r.returned, trace |-> r.trace]
  /\ UNCHANGED <<altair_saver_installed, plot, files>>

\* line 78: frames = []
ResetFrames ==
  /\ frames # <<>>
  /\ frames' = <<>>
  /\ last' = Idle
  /\ UNCHANGED <<altair_saver_installed, plot, figs, buffers, files>>

\* lines 68, 84-91: gif.save(frames, path, duration)
Save(path, duration, env) ==
  /\ LET r == save(frames, path, duration, env, files, buffers)
     IN /\ files' = r.files
        /\ last' = [op |-> "save", input |-> [path |-> path, duration |-> duration],
                    mode |-> "none", error |-> r.error,
                    returned |-> 0, trace |-> r.trace]
  /\ UNCHANGED <<altair_saver_installed, plot, figs, buffers, frames>>

\* line 68: gif.save(frames, path) uses duration=100
SaveDefault(path, env) == Save(path, DefaultDuration, env)

Next ==
  \/ \E d \in Decorations : Decorate(d.opts, d.func)
  \/ \E c \in CallerCalls, env \in CaptureEnvs : Capture(c.args, c.kwargs, env)
  \/ ResetFrames
  \/ \E path \in Paths, d \in Durations, env \in SaveEnvs : Save(path, d, env)
  \/ \E path \in Paths, env \in SaveEnvs : SaveDefault(path, env)

Spec == Init /\ [][Next]_vars

(* ------------------------- reading the outcome ------------------------- *)
\* the calls of last.trace made to fn
CallsTo(fn) == {i \in DOMAIN last.trace : last.trace[i].fn = fn}

\* a step that is one call of the decorated function
CaptureStep == last'.op = "capture"

\* the value the decorated function returns to str(type(...))
Returned == FuncBody(plot.func).ret

\* no open figure carries a mark
CleanCanvas(fs) == \A i \in DOMAIN fs : fs[i] = {}

(* -------------------------------- C1 ----------------------------------- *)
\* C1: in imperative mode the current-figure state is clean after each
\* capture: a capture that starts from a clean canvas leaves a clean canvas,
\* and the figure it rendered holds only what the function drew in this call
C1_CleanAfterEachCapture ==
  [][ (CaptureStep /\ last'.mode = "imperative" /\ CleanCanvas(figs))
        => /\ CleanCanvas(figs')
           /\ last'.returned # 0 =>
                buffers'[last'.returned].data.pixels \subseteq {last'.input.args[1]}
    ]_vars

(* -------------------------------- C2 ----------------------------------- *)
\* what C2 and its amendment promise of a capture without the adapter:
\* MissingExtension naming the extra, nothing rendered, no image returned
RaisedMissingExtension ==
  /\ last.error.type = "MissingExtension"
  /\ last.error.msg = "pip install gif[altair]"
  /\ CallsTo("save_alt") = {} /\ CallsTo("savefig") = {}
  /\ buffers[Len(buffers)] = EmptyBuffer
  /\ last.returned = 0

\* C2 as stated: every capture whose function returns a declarative-chart
\* object while the adapter is not installed raises MissingExtension,
\* renders nothing and returns no image
C2_ChartObjectWithoutAdapter ==
  (last.op = "capture" /\ last.mode # "none" /\ IsChartObject(Returned)
     /\ ~altair_saver_installed)
    => RaisedMissingExtension

\* C2 amended: every capture whose return value has "altair" in the text of
\* its type, while the adapter is not installed, raises MissingExtension
\* naming the extra, renders nothing and returns no image
C2_AltairTypeWithoutAdapter ==
  (last.op = "capture" /\ last.mode # "none"
     /\ Contains(TypeStr(Returned), ALTAIR) /\ ~altair_saver_installed)
    => RaisedMissingExtension

C2_Witness ==
  /\ last.op = "capture" /\ Returned = "Chart" /\ ~altair_saver_installed
  /\ last.error = MissingExtension
  /\ Len(frames) = 1

(* -------------------------------- C3 ----------------------------------- *)
\* C3 as stated: a successful save of N >= 1 frames leaves at path a file
\* with exactly the N frames in input order, the given duration on every
\* frame, loop 0
C3_SaveWritesAllFrames ==
  (last.op = "save" /\ frames # <<>> /\ last.error = NoError)
    => LET f == files[last.input.path]
       IN /\ f.exists
          /\ Len(f.frames) = Len(frames)
          /\ \A i \in DOMAIN frames : f.frames[i] = Decode(buffers, frames[i])
          /\ Len(f.durations) = Len(frames)
          /\ \A i \in DOMAIN frames : f.durations[i] = last.input.duration
          /\ f.loop = 0

\* no frame of the sequence is the same image as the frame before it
NoRepeatedFrame ==
  \A i \in DOMAIN frames :
    i > 1 => Decode(buffers, frames[i]) # Decode(buffers, frames[i - 1])

\* the frames of the sequence that differ from the frame before them
KeptFrames == {i \in DOMAIN frames :
                 i = 1 \/ Decode(buffers, frames[i]) # Decode(buffers, frames[i - 1])}

\* C3 amended: save of N >= 1 frames makes one call of the encoder, on the
\* first frame, for path, with frames 2..N in order as the images to append,
\* all frames to be saved, the given duration and loop 0.  When it succeeds
\* the file holds, in input order, the frames that differ from the frame
\* before them, and no other; when no frame repeats the one before it these
\* are exactly the N frames, each with the given duration; loop is 0
C3_SaveRequestsAllFrames ==
  (last.op = "save" /\ frames # <<>>)
    => /\ Len(last.trace) = 1
       /\ LET c == last.trace[1]
          IN /\ c.fn = "Image.save"
             /\ c.fp = frames[1].fp
             /\ c.args = <<last.input.path>>
             /\ c.kwargs.save_all
             /\ c.kwargs.append_images = SubSeq(frames, 2, Len(frames))
             /\ c.kwargs.duration = last.input.duration
             /\ c.kwargs.loop = 0
       /\ last.error = NoError =>
            LET f == files[last.input.path]
            IN /\ f.exists
               /\ f.loop = 0
               /\ Len(f.frames) = Cardinality(KeptFrames)
               /\ \A i \in KeptFrames :
                    f.frames[Cardinality({j \in KeptFrames : j <= i})]
                      = Decode(buffers, frames[i])
               /\ NoRepeatedFrame =>
                    /\ Len(f.frames) = Len(frames)
                    /\ f.durations = [i \in DOMAIN frames |-> last.input.duration]

C3_Witness ==
  /\ last.op = "save" /\ last.error = NoError
  /\ Len(frames) = 2
  /\ Pixels(buffers, frames[1]) # Pixels(buffers, frames[2])
  /\ files[last.input.path].frames
       = <<Decode(buffers, frames[1]), Decode(buffers, frames[2])>>
  /\ files[last.input.path].durations = <<DefaultDuration, DefaultDuration>>

(* -------------------------------- C4 ----------------------------------- *)
\* C4: save of an empty sequence raises the IndexError of frames[0], the
\* encoder is not called and no file is created or changed
C4_EmptySaveFails ==
  [][ (last'.op = "save" /\ frames = <<>>)
        => /\ last'.error = IndexError
           /\ last'.trace = <<>>
           /\ files' = files
    ]_vars

C4_Witness ==
  /\ last.op = "save" /\ frames = <<>> /\ last.error.type = "IndexError"
  /\ \E p \in Paths : files[p].exists

(* -------------------------------- C5 ----------------------------------- *)
\* exactly one of the two render paths runs
OneRenderPath ==
  /\ last.mode = "chart" =>
       /\ CallsTo("savefig") = {} /\ CallsTo("close") = {}
       /\ Cardinality(CallsTo("save_alt")) <= 1
  /\ last.mode = "imperative" =>
       /\ CallsTo("save_alt") = {}
       /\ Cardinality(CallsTo("savefig")) <= 1
  /\ last.returned # 0 =>
       Cardinality(CallsTo("save_alt") \cup CallsTo("savefig")) = 1

\* C5 as stated: a capture takes chart mode if and only if the return value
\* is a declarative-chart object, imperative mode otherwise; one path runs
C5_ChartModeIffChartObject ==
  (last.op = "capture" /\ last.mode # "none")
    => /\ last.mode = "chart" <=> IsChartObject(Returned)
       /\ OneRenderPath

\* C5 amended: a capture takes chart mode if and only if the text of the
\* return value's type contains "altair", imperative mode for every other
\* return value, None included; exactly one of the two render paths runs
C5_ChartModeIffAltairInTypeName ==
  (last.op = "capture" /\ last.mode # "none")
    => /\ last.mode = "chart" <=> Contains(TypeStr(Returned), ALTAIR)
       /\ Returned = "None" => last.mode = "imperative"
       /\ OneRenderPath

C5_Witness ==
  /\ last.op = "capture" /\ last.mode = "chart" /\ last.returned # 0
  /\ Returned = "Chart"
  /\ Len(frames) = 2 /\ buffers[frames[1].fp].data.pixels # {}

(* -------------------------------- C6 ----------------------------------- *)
\* the errors the repository's own code or the interpreter raises at the
\* call site, rather than a function that was called
RaisedAtCallSite == {MissingExtension, DuplicateKeyword, IndexError}

\* C6: an error raised by the plotting function, the renderer, the decoder
\* or the encoder is the error the caller gets, the call that raised is the
\* last one made, nothing is called twice, and a failed capture returns no
\* image
C6_ErrorsPassThrough ==
  last.op \in {"capture", "save"}
    => /\ \A i \in DOMAIN last.trace :
            last.trace[i].raised # NoError
              => /\ i = Len(last.trace)
                 /\ last.error = last.trace[i].raised
       /\ (last.error # NoError /\ last.error \notin RaisedAtCallSite)
            => /\ last.trace # <<>>
               /\ last.trace[Len(last.trace)].raised = last.error
       /\ \A i, j \in DOMAIN last.trace :
            last.trace[i].fn = last.trace[j].fn => i = j
       /\ last.error # NoError => last.returned = 0

C6_Witness ==
  /\ last.op = "capture" /\ last.mode = "imperative"
  /\ last.error.type = "ValueError"
  /\ last.trace[Len(last.trace)].fn = "savefig"
  /\ Len(frames) = 1

(* -------------------------------- C7 ----------------------------------- *)
\* C7: a capture calls the plotting function once with the caller's
\* arguments, and every rendering call gets the buffer, the decorator's
\* positional options and its keyword options plus the format set to png
C7_ArgumentsForwarded ==
  last.op = "capture"
    => /\ CallsTo("func") = {1}
       /\ last.trace[1].args = last.input.args
       /\ last.trace[1].kwargs = last.input.kwargs
       /\ \A i \in CallsTo("savefig") :
            /\ last.trace[i].fp = Len(buffers)
            /\ last.trace[i].args = plot.save_args
            /\ last.trace[i].kwargs = plot.save_kwargs \cup {<<"format", "png">>}
            /\ \A kv \in last.trace[i].kwargs : kv[1] = "format" => kv[2] = "png"
       /\ \A i \in CallsTo("save_alt") :
            /\ last.trace[i].fp = Len(buffers)
            /\ last.trace[i].args = plot.save_args
            /\ last.trace[i].kwargs = plot.save_kwargs \cup {<<"fmt", "png">>}
            /\ \A kv \in last.trace[i].kwargs : kv[1] = "fmt" => kv[2] = "png"
       /\ last.returned # 0 =>
            buffers[last.returned].data.format = "png"

C7_Witness ==
  /\ last.op = "capture" /\ last.returned # 0
  /\ last.input.kwargs # {}
  /\ plot.save_args # <<>> /\ plot.save_kwargs # {}
  /\ CallsTo("savefig") # {}

(* -------------------------------- C8 ----------------------------------- *)
\* C8: no call changes altair_saver_installed, and a chart-mode capture
\* raises MissingExtension exactly when the flag set at load time is false,
\* whatever was captured before
C8_FlagFixedAtLoad ==
  [][ /\ altair_saver_installed' = altair_saver_installed
      /\ (CaptureStep /\ last'.mode = "chart")
           => (last'.error = MissingExtension <=> ~altair_saver_installed)
    ]_vars

C8_Witness ==
  /\ last.op = "capture" /\ last.mode = "chart"
  /\ last.error = MissingExtension
  /\ Len(frames) = 1

(* -------------------------------- C9 ----------------------------------- *)
\* C9: a capture gets a buffer no earlier capture had, the frames collected
\* before keep their buffer and their pixels, a returned frame is appended
\* after them, and no two collected frames share a buffer
C9_FreshBufferPerCapture ==
  [][ CaptureStep
        => /\ \A i \in DOMAIN frames :
                /\ i \in DOMAIN frames'
                /\ frames'[i] = frames[i]
                /\ Pixels(buffers', frames'[i]) = Pixels(buffers, frames[i])
           /\ last'.returned # 0
                => /\ last'.returned \notin DOMAIN buffers
                   /\ frames' = Append(frames, [fp |-> last'.returned])
           /\ \A i, j \in DOMAIN frames' :
                frames'[i].fp = frames'[j].fp => i = j
    ]_vars

C9_Witness ==
  /\ last.op = "capture" /\ last.returned = 2
  /\ Len(frames) = 2
  /\ Pixels(buffers, frames[1]) = {"1"}
  /\ Pixels(buffers, frames[2]) = {"0"}

(* -------------------------------- C10 ---------------------------------- *)
\* C10: a chart-mode capture, returning or raising MissingExtension, leaves
\* the figures as the plotting function left them: it neither renders nor
\* closes the current figure
C10_ChartModeKeepsFigures ==
  [][ (CaptureStep /\ last'.mode = "chart")
        => /\ figs' = RunOps(figs, FuncBody(plot.func).ops, last'.input.args[1])
           /\ \A i \in DOMAIN last'.trace :
                last'.trace[i].fn \notin {"savefig", "close"}
    ]_vars

C10_Witness ==
  /\ last.op = "capture" /\ last.mode = "chart" /\ last.returned # 0
  /\ figs = <<{"0", "1"}>>

====
